---------------------------- MODULE Spec2Model ----------------------------
(***************************************************************************)
(* Model of src/src/data_acquisition/download_naip_dallas.py: the command  *)
(* line entry point main(), the NAIPDownloader location resolution and     *)
(* tile generation (get_dallas_tiles, get_zip_code_coordinates), the       *)
(* per-tile transfer (copy_tile_to_s3, download_with_rasterio_fallback)    *)
(* and the orchestration loop with its summary (process_all_tiles).        *)
(*                                                                         *)
(* Strings that the program slices or tests character by character (the    *)
(* zip code, the quad ids) are sequences of one-character strings; keys    *)
(* and file names are built by concatenation as the f-strings build them.  *)
(* External services (the two object stores, the geocoder, the local       *)
(* scratch directory) are part of the state; every call to them is logged  *)
(* in calls, and may fail while the fault budget lasts.                    *)
(***************************************************************************)
EXTENDS Integers, Sequences, FiniteSets, TLC

VARIABLES
    argv,        \* sys.argv[1:], the command-line arguments after the script
    config_file, \* content of dallas_zip_quad_mapping.json, NoConfig if absent
    source,      \* s3 paths of the objects in the requester-pays NAIP bucket
    target,      \* keys of the tile objects in the target bucket
    target0,     \* the keys the target bucket held when the process started
    summaries,   \* summary objects put to the target bucket, in order
    scratch,     \* temporary files present on the local disk
    pc,          \* position of the single thread of control
    zip_code,    \* main's zip_code
    zip_config,  \* NAIPDownloader.zip_config
    coords,      \* coordinates the resolution obtained, or NoCoords
    quad_ids,    \* get_dallas_tiles' quad_ids
    tiles,       \* process_all_tiles' tiles
    i,           \* index (1-based) of the tile the loop is at
    results,     \* process_all_tiles' results accumulator
    tmp_path,    \* download_with_rasterio_fallback's tmp_path, or None
    geo,         \* what the geocoding request came to, "none" before it
    calls,       \* every external call so far: <<operation, tile index, ok>>
    faults,      \* injected transient failures so far
    exit_code,   \* process exit status, meaningful once pc = "exited"
    error        \* what ended the run abnormally, or "none"

vars == <<argv, config_file, source, target, target0, summaries, scratch, pc, zip_code,
          zip_config, coords, quad_ids, tiles, i, results, tmp_path, geo,
          calls, faults, exit_code, error>>

----------------------------------------------------------------------------
(* Bounds of the model *)

\* transient failures injected in one run (errors of calls that would succeed)
MaxFaults == 2

----------------------------------------------------------------------------
(* Values *)

\* Python's None where a string is expected
None == "None"
\* Python's None where a (lat, lon) tuple is expected
NoCoords == <<>>

RECURSIVE Join(_)
\* the Python string a sequence of characters stands for
Join(s) == IF s = <<>> THEN "" ELSE Head(s) \o Join(Tail(s))

\* characters str.isdigit() accepts: the ASCII digits and other Unicode
\* digits, of which "sup2" stands for U+00B2 (SUPERSCRIPT TWO)
AsciiDigits == {"0", "1", "2", "3", "4", "5", "6", "7", "8", "9"}
UnicodeDigits == AsciiDigits \cup {"sup2"}

\* str.isdigit(): non-empty and every character a digit
isdigit(s) == Len(s) > 0 /\ \A k \in 1..Len(s) : s[k] \in UnicodeDigits

Z75287 == <<"7", "5", "2", "8", "7">>
Z75201 == <<"7", "5", "2", "0", "1">>
Z75202 == <<"7", "5", "2", "0", "2">>
Z75203 == <<"7", "5", "2", "0", "3">>
Z75204 == <<"7", "5", "2", "0", "4">>
Z00000 == <<"0", "0", "0", "0", "0">>

\* dallas_zip_coords: (lat, lon) in units of 1e-4 degree
dallas_zip_coords ==
    (Z75287 :> <<330005, -968314>>) @@ (Z75201 :> <<327831, -968067>>) @@
    (Z75202 :> <<327806, -967970>>) @@ (Z75203 :> <<327487, -967919>>) @@
    (Z75204 :> <<328029, -967828>>)

TARGET_BUCKET == "dallas-flood-raw-data"
TARGET_PREFIX == "imagery/naip"

\* the quadrants of a quad, in the order the generator walks them
Quadrants == <<"nw", "ne", "sw", "se">>

\* years used when the configuration gives none
DefaultYears == <<2020, 2022, 2024>>

----------------------------------------------------------------------------
(* The configuration file *)

Q3209661 == <<"3", "2", "0", "9", "6", "6", "1">>
Q3209653 == <<"3", "2", "0", "9", "6", "5", "3">>

\* A zip_code_mapping entry is a record with the set of keys the JSON object
\* holds (keys); a field outside keys is absent from the JSON object.
Entry(ks, v, qs) ==
    [keys |-> ks, name |-> "North Dallas", verified |-> v, quad_ids |-> qs,
     coordinates |-> <<330005, -968314>>]

AllKeys == {"name", "verified", "quad_ids", "coordinates"}

\* verified entry with one quad id
EntryVerified == Entry(AllKeys, TRUE, <<Q3209661>>)
\* verified entry with two quad ids
EntryVerifiedTwo == Entry(AllKeys, TRUE, <<Q3209661, Q3209653>>)
\* quad ids listed but not verified
EntryUnverified == Entry(AllKeys, FALSE, <<Q3209661>>)
\* verified flag set on an empty quad id list
EntryEmptyQuads == Entry(AllKeys, TRUE, <<>>)
\* coordinates only
EntryCoordsOnly == Entry({"name", "verified", "coordinates"}, FALSE, <<>>)
\* neither quad ids nor coordinates
EntryBare == Entry({"name", "verified"}, FALSE, <<>>)
\* quad ids listed, no verified key
EntryNoFlag == Entry({"name", "quad_ids", "coordinates"}, FALSE, <<Q3209661>>)

\* A configuration: the mapping and, when has_years, the naip_years list.
Config(e, hy, ys) ==
    [present |-> TRUE, zip_code_mapping |-> (Z75287 :> e), has_years |-> hy,
     naip_years |-> ys]

\* no configuration file: zip_config is None
NoConfig ==
    [present |-> FALSE, zip_code_mapping |-> <<>>, has_years |-> FALSE,
     naip_years |-> <<>>]

\* the configuration files the model starts from
ConfigFiles ==
    {NoConfig,
     Config(EntryVerified, TRUE, <<2022>>),
     Config(EntryVerifiedTwo, TRUE, <<2022>>),
     Config(EntryUnverified, TRUE, <<2022>>),
     Config(EntryEmptyQuads, FALSE, <<>>),
     Config(EntryCoordsOnly, FALSE, <<>>),
     Config(EntryBare, TRUE, <<2022>>),
     Config(EntryNoFlag, TRUE, <<2022>>)}

\* dict.get(key) is truthy / key in dict
Has(e, k) == k \in e.keys

----------------------------------------------------------------------------
(* Tile generation: get_dallas_tiles, lines 165-184 *)

Min(a, b) == IF a < b THEN a ELSE b

\* the dictionary appended for one (year, quad_id, quadrant)
Tile(year, quad_id, quadrant, zip) ==
    LET tile_name == "m_" \o Join(quad_id) \o "_" \o quadrant \o "_14_060_"
                     \o ToString(year) \o "0815.tif"
        s3_path == "s3://naip-analytic/tx/" \o ToString(year)
                   \o "/60cm/rgbir_cog/"
                   \o Join(SubSeq(quad_id, 1, Min(5, Len(quad_id))))
                   \o "/" \o tile_name
    IN  [year |-> year, quad_id |-> Join(quad_id), quadrant |-> quadrant,
         s3_path |-> s3_path, filename |-> tile_name, zip_code |-> Join(zip)]

\* for quadrant in ['nw', 'ne', 'sw', 'se']
QuadrantTiles(year, quad_id, zip) ==
    [k \in 1..Len(Quadrants) |-> Tile(year, quad_id, Quadrants[k], zip)]

\* the loop over quad_ids stopping after its first element
QuadTilesFirstOnly(year, quads, zip) ==
    IF quads = <<>> THEN <<>> ELSE QuadrantTiles(year, Head(quads), zip)

RECURSIVE QuadTiles(_, _, _)
\* for quad_id in quad_ids
QuadTiles(year, quads, zip) ==
    IF quads = <<>> THEN <<>>
    ELSE QuadrantTiles(year, Head(quads), zip) \o QuadTiles(year, Tail(quads), zip)

RECURSIVE YearTiles(_, _, _)
\* for year in years
YearTiles(years, quads, zip) ==
    IF years = <<>> THEN <<>>
    ELSE QuadTiles(Head(years), quads, zip) \o YearTiles(Tail(years), quads, zip)

\* years = self.zip_config.get('naip_years', [2020, 2022, 2024]) if
\* self.zip_config else [2020, 2022, 2024]
Years(cfg) ==
    IF cfg.present /\ cfg.has_years THEN cfg.naip_years ELSE DefaultYears

\* target_key of copy_tile_to_s3
copy_target_key(tile_info) ==
    TARGET_PREFIX \o "/" \o ToString(tile_info.year) \o "/" \o tile_info.filename

\* the fallback's key built without the year directory
fallback_target_key_flat(tile_info) ==
    TARGET_PREFIX \o "/" \o tile_info.filename

\* target_key of download_with_rasterio_fallback
fallback_target_key(tile_info) ==
    TARGET_PREFIX \o "/" \o ToString(tile_info.year) \o "/" \o tile_info.filename

----------------------------------------------------------------------------
(* Initial states *)

Z7528 == <<"7", "5", "2", "8">>
Z752870 == <<"7", "5", "2", "8", "7", "0">>
Z7528x == <<"7", "5", "2", "8", "x">>
ZMinus == <<"-", "7", "5", "2", "8">>
ZSup == <<"sup2", "sup2", "sup2", "sup2", "sup2">>
ZEmpty == <<>>

\* the command lines the model starts from
ArgvChoices ==
    {<<>>, <<Z75287>>, <<Z75201>>, <<Z00000>>, <<Z7528>>, <<Z752870>>,
     <<Z7528x>>, <<ZMinus>>, <<ZSup>>, <<ZEmpty>>, <<Z75287, Z75201>>}

\* every tile a configuration of ConfigFiles names: the buckets hold no
\* other object
Universe ==
    LET ts == YearTiles(<<2022>>, <<Q3209661, Q3209653>>, Z75287)
    IN  {ts[k] : k \in 1..Len(ts)}

\* quadrants whose tiles the NAIP bucket holds / the target bucket holds
SourcePatterns == {{}, {"nw", "ne"}, {"nw", "ne", "sw", "se"}}
TargetPatterns == {{}, {"nw", "sw"}, {"nw", "ne", "sw", "se"}}

NoResults == [successful |-> <<>>, failed |-> <<>>, skipped |-> <<>>]

Init ==
    /\ argv \in ArgvChoices
    /\ config_file \in ConfigFiles
    /\ \E sp \in SourcePatterns :
           source = {t.s3_path : t \in {u \in Universe : u.quadrant \in sp}}
    /\ \E tp \in TargetPatterns :
           target = {copy_target_key(t) : t \in {u \in Universe : u.quadrant \in tp}}
    /\ target0 = target
    /\ summaries = <<>>
    /\ scratch = {}
    /\ pc = "main"
    /\ zip_code = <<>>
    /\ zip_config = NoConfig
    /\ coords = NoCoords
    /\ quad_ids = <<>>
    /\ tiles = <<>>
    /\ i = 0
    /\ results = NoResults
    /\ tmp_path = None
    /\ geo = "none"
    /\ calls = <<>>
    /\ faults = 0
    /\ exit_code = 0
    /\ error = "none"

----------------------------------------------------------------------------
(* main(), lines 386-409: arguments, validation, construction *)

\* sys.exit(status), or the interpreter's exit after main returns
Exit(status, why) ==
    /\ pc' = "exited"
    /\ exit_code' = status
    /\ error' = why

\* an external call and whether it succeeded are appended to the log; calls
\* outside the loop carry the tile index 0
Call(op, k, ok) == calls' = Append(calls, <<op, k, ok>>)

\* the validation without its length test
ValidZipNoLength(z) == isdigit(z)

\* the validation at line 397
ValidZip(z) == isdigit(z) /\ Len(z) = 5

\* len(sys.argv) != 2: usage message, exit 1
Usage ==
    /\ pc = "main"
    /\ Len(argv) # 1
    /\ Exit(1, "usage")
    /\ UNCHANGED <<geo, argv, config_file, source, target, target0, summaries, scratch,
                   zip_code, zip_config, coords, quad_ids, tiles, i, results,
                   tmp_path, calls, faults>>

\* the zip code fails the validation: error message, exit 1
InvalidZip ==
    /\ pc = "main"
    /\ Len(argv) = 1
    /\ ~ValidZip(argv[1])
    /\ zip_code' = argv[1]
    /\ Exit(1, "invalid_zip")
    /\ UNCHANGED <<geo, argv, config_file, source, target, target0, summaries, scratch,
                   zip_config, coords, quad_ids, tiles, i, results, tmp_path,
                   calls, faults>>

\* the zip code is valid: NAIPDownloader(...) loads the configuration file
\* (load_zip_mapping) and main enters process_all_tiles
Construct ==
    /\ pc = "main"
    /\ Len(argv) = 1
    /\ ValidZip(argv[1])
    /\ zip_code' = argv[1]
    /\ zip_config' = config_file
    /\ pc' = "get_dallas_tiles"
    /\ UNCHANGED <<geo, argv, config_file, source, target, target0, summaries, scratch,
                   coords, quad_ids, tiles, i, results, tmp_path, calls,
                   faults, exit_code, error>>

----------------------------------------------------------------------------
(* get_dallas_tiles, lines 137-184, and get_zip_code_coordinates *)

\* self.zip_config and zip_code in self.zip_config['zip_code_mapping']
InMapping(cfg, z) == cfg.present /\ z \in DOMAIN cfg.zip_code_mapping

\* zip_info.get('quad_ids') is truthy: the key is there and the list not empty
TruthyQuads(e) == Has(e, "quad_ids") /\ e.quad_ids # <<>>

\* line 141 reads zip_info['verified'] once quad_ids is truthy; the branches
\* read zip_info['name'] and, in the else branch, zip_info['coordinates']
RaisesKeyError(e) ==
    \/ TruthyQuads(e) /\ ~Has(e, "verified")
    \/ ~Has(e, "name")
    \/ ~(TruthyQuads(e) /\ e.verified) /\ ~Has(e, "coordinates")

\* line 141 with the verified flag read the wrong way round
UseVerifiedInverted(e) == TruthyQuads(e) /\ ~e.verified

\* the condition of line 141
UseVerified(e) == TruthyQuads(e) /\ e.verified

\* get_quad_ids_for_location computing a quad id from the coordinates
get_quad_ids_for_location_computed(lat, lon) ==
    <<<<"3", "2", "0", "9", "6", "9", "9">>>>

\* get_quad_ids_for_location: warns and returns the empty list
get_quad_ids_for_location(lat, lon) == <<>>

\* where the loop of process_all_tiles stands with index k
LoopPc(k, ts) == IF k <= Len(ts) THEN "head_target" ELSE "summary"

\* lines 163-184 and 312-318: the tiles of quad ids qs, and the loop's start
Generate(qs) ==
    /\ quad_ids' = qs
    /\ tiles' = YearTiles(Years(zip_config), qs, zip_code)
    /\ i' = 1
    /\ results' = NoResults
    /\ pc' = LoopPc(1, tiles')

\* the configured entry is verified: its quad ids are used
ResolveVerified ==
    /\ pc = "get_dallas_tiles"
    /\ InMapping(zip_config, zip_code)
    /\ LET zip_info == zip_config.zip_code_mapping[zip_code]
       IN  /\ ~RaisesKeyError(zip_info)
           /\ UseVerified(zip_info)
           /\ Generate(zip_info.quad_ids)
    /\ UNCHANGED <<geo, argv, config_file, source, target, target0, summaries, scratch,
                   zip_code, zip_config, coords, tmp_path, calls, faults,
                   exit_code, error>>

\* the configured entry is not verified: its coordinates are used
ResolveCoordinates ==
    /\ pc = "get_dallas_tiles"
    /\ InMapping(zip_config, zip_code)
    /\ LET zip_info == zip_config.zip_code_mapping[zip_code]
       IN  /\ ~RaisesKeyError(zip_info)
           /\ ~UseVerified(zip_info)
           /\ coords' = zip_info.coordinates
           /\ Generate(get_quad_ids_for_location(zip_info.coordinates[1],
                                                 zip_info.coordinates[2]))
    /\ UNCHANGED <<geo, argv, config_file, source, target, target0, summaries, scratch,
                   zip_code, zip_config, tmp_path, calls, faults, exit_code,
                   error>>

\* the configured entry lacks a key the code reads: the KeyError reaches
\* main's except Exception, exit 1
ResolveKeyError ==
    /\ pc = "get_dallas_tiles"
    /\ InMapping(zip_config, zip_code)
    /\ RaisesKeyError(zip_config.zip_code_mapping[zip_code])
    /\ Exit(1, "KeyError")
    /\ UNCHANGED <<geo, argv, config_file, source, target, target0, summaries, scratch,
                   zip_code, zip_config, coords, quad_ids, tiles, i, results,
                   tmp_path, calls, faults>>

\* what the request to the geocoding service can come to
GeoOutcomes ==
    {"hit",          \* 200 with an address match
     "non200",       \* a status other than 200
     "no_match",     \* 200, result.addressMatches empty
     "no_result",    \* 200, a JSON object without result
     "bad_json",     \* 200, body not JSON: response.json() raises
     "bad_match",    \* 200, a match without coordinates: KeyError
     "timeout",      \* requests.get raises Timeout after 30 s
     "conn_error"}   \* requests.get raises ConnectionError

\* the outcomes that raise inside the try block of lines 76-107
GeoRaises == {"bad_json", "bad_match", "timeout", "conn_error"}

\* coordinates the service answers with on a hit
GeoCoords == <<330000, -968000>>

\* get_zip_code_coordinates answering the centre of Dallas for a zip code
\* that the hardcoded table does not hold
get_zip_code_coordinates_default(z, outcome) ==
    IF outcome = "hit" THEN GeoCoords
    ELSE IF outcome \in GeoRaises THEN NoCoords
    ELSE IF z \in DOMAIN dallas_zip_coords THEN dallas_zip_coords[z]
    ELSE <<327767, -967970>>

\* get_zip_code_coordinates: what it returns on a given outcome of the request
get_zip_code_coordinates(z, outcome) ==
    IF outcome = "hit" THEN GeoCoords
    ELSE IF outcome \in GeoRaises THEN NoCoords
    ELSE IF z \in DOMAIN dallas_zip_coords THEN dallas_zip_coords[z]
    ELSE NoCoords

\* no configured entry: geocode; without coordinates the ValueError of line
\* 157 reaches main's except ValueError, exit 1
ResolveGeocode ==
    /\ pc = "get_dallas_tiles"
    /\ ~InMapping(zip_config, zip_code)
    /\ \E outcome \in GeoOutcomes :
         LET c == get_zip_code_coordinates(zip_code, outcome)
         IN  /\ Call("geocode", 0, outcome = "hit")
             /\ geo' = outcome
             /\ coords' = c
             /\ IF c = NoCoords
                THEN /\ Exit(1, "ValueError")
                     /\ UNCHANGED <<quad_ids, tiles, i, results>>
                ELSE /\ Generate(get_quad_ids_for_location(c[1], c[2]))
                     /\ UNCHANGED <<exit_code, error>>
    /\ UNCHANGED <<argv, config_file, source, target, target0, summaries, scratch,
                   zip_code, zip_config, tmp_path, faults>>

----------------------------------------------------------------------------
(* Failures of external calls *)

\* whether a call that would succeed fails this time (a transient error)
FaultChoices == IF faults < MaxFaults THEN {FALSE, TRUE} ELSE {FALSE}

Inject(f) == faults' = IF f THEN faults + 1 ELSE faults

----------------------------------------------------------------------------
(* process_all_tiles, lines 320-335, with copy_tile_to_s3 and              *)
(* download_with_rasterio_fallback inlined at their calls                  *)

\* the outcome put at the front of the list instead of appended
RecordPrepend(list) ==
    /\ results' = [results EXCEPT ![list] = <<tiles[i].filename>> \o @]
    /\ pc' = "sleep"

\* results[list].append(tile['filename']), then the pause before the next
\* tile (pc "sleep")
Record(list) ==
    /\ results' = [results EXCEPT ![list] = Append(@, tiles[i].filename)]
    /\ pc' = "sleep"

\* the list process_all_tiles appends to when copy_tile_to_s3 returned True
\* because the target already held the key (lines 217 and 324-325)
ListWhenPresent == "successful"

\* copy_tile_to_s3 without the return of line 217
AfterHeadTargetNoReturn(found) == "check_source"

\* where copy_tile_to_s3 goes after the head_object of the target: found
\* returns True (line 217), an exception passes on to the source check
AfterHeadTarget(found) == IF found THEN "return_true" ELSE "check_source"

\* where process_all_tiles goes when copy_tile_to_s3 returned False: the
\* fallback (line 329), whatever made it return False
AfterCopyFalse(why) == "rio_read"

\* process_all_tiles trying the fallback again when it returned False
AfterFallbackFalseRetry == "rio_read"

\* process_all_tiles without the else branch of line 331: the tile whose
\* fallback returned False is recorded nowhere
AfterFallbackFalseUnrecorded == "sleep"

\* where process_all_tiles goes when the fallback returned False: the tile
\* is recorded failed (line 332) and the loop moves on
AfterFallbackFalse == "record_failed"

\* copy_tile_to_s3 without its except clause
OnCopyExceptionPropagate == "propagate"

\* what becomes of an exception raised inside copy_tile_to_s3: the except
\* clause of lines 261-263 logs it and returns False
OnCopyException == "return_false"

\* what becomes of an exception raised inside
\* download_with_rasterio_fallback: the except clause of lines 305-307 logs
\* it and returns False
OnFallbackException == "return_false"

\* control moves on inside the tile
Goto(p) ==
    /\ pc' = p
    /\ UNCHANGED <<results, exit_code, error>>

\* the outcome of the tile is appended to a list of results
Recorded(list) ==
    /\ Record(list)
    /\ UNCHANGED <<exit_code, error>>

\* the exception leaves process_all_tiles and reaches main's except
\* Exception
Propagate ==
    /\ Exit(1, "Exception")
    /\ UNCHANGED results

\* copy_tile_to_s3 returned False
CopyFalse(why) == Goto(AfterCopyFalse(why))

\* download_with_rasterio_fallback returned False
FallbackFalse ==
    IF AfterFallbackFalse = "record_failed"
    THEN Recorded("failed")
    ELSE Goto(AfterFallbackFalse)

\* an exception was raised inside copy_tile_to_s3
CopyRaised(why) ==
    IF OnCopyException = "return_false" THEN CopyFalse(why) ELSE Propagate

\* an exception was raised inside download_with_rasterio_fallback
FallbackRaised ==
    IF OnFallbackException = "return_false" THEN FallbackFalse ELSE Propagate

\* lines 213-219: head_object on the target key; found returns True, which
\* process_all_tiles records, an exception is passed over
HeadTarget ==
    /\ pc = "head_target"
    /\ \E f \in FaultChoices :
         LET found == copy_target_key(tiles[i]) \in target /\ ~f
         IN  /\ Inject(copy_target_key(tiles[i]) \in target /\ f)
             /\ Call("head_target", i, found)
             /\ IF AfterHeadTarget(found) = "return_true"
                THEN Recorded(ListWhenPresent)
                ELSE Goto(AfterHeadTarget(found))
    /\ UNCHANGED <<geo, argv, config_file, source, target, target0, summaries,
                   scratch, zip_code, zip_config, coords, quad_ids, tiles, i,
                   tmp_path>>

\* copy_tile_to_s3 going on to copy_object whatever the source check said
AfterCheckSourceIgnored(exists) == "copy_object"

\* lines 222-224: `if not self.check_tile_exists(...)` logs a warning and
\* returns False, otherwise the copy follows
AfterCheckSource(exists) == IF exists THEN "copy_object" ELSE "return_false"

\* lines 221-224 and check_tile_exists: head_object on the source key, any
\* exception of which makes check_tile_exists return False
CheckSource ==
    /\ pc = "check_source"
    /\ \E f \in FaultChoices :
         LET exists == tiles[i].s3_path \in source /\ ~f
         IN  /\ Inject(tiles[i].s3_path \in source /\ f)
             /\ Call("head_source", i, exists)
             /\ IF AfterCheckSource(exists) = "return_false"
                THEN CopyFalse("source_not_found")
                ELSE Goto(AfterCheckSource(exists))
    /\ UNCHANGED <<geo, argv, config_file, source, target, target0, summaries,
                   scratch, zip_code, zip_config, coords, quad_ids, tiles, i,
                   tmp_path>>

\* lines 235-241: copy_object; an exception reaches line 261
CopyObject ==
    /\ pc = "copy_object"
    /\ \E f \in FaultChoices :
         LET ok == tiles[i].s3_path \in source /\ ~f
         IN  /\ Inject(tiles[i].s3_path \in source /\ f)
             /\ Call("copy_object", i, ok)
             /\ IF ok
                THEN /\ target' = target \cup {copy_target_key(tiles[i])}
                     /\ Goto("put_tagging")
                ELSE /\ CopyRaised("copy_failed")
                     /\ UNCHANGED target
    /\ UNCHANGED <<geo, argv, config_file, source, target0, summaries, scratch,
                   zip_code, zip_config, coords, quad_ids, tiles, i, tmp_path>>

\* lines 244-259: put_object_tagging, then return True, which
\* process_all_tiles records; an exception reaches line 261
PutTagging ==
    /\ pc = "put_tagging"
    /\ \E f \in FaultChoices :
         /\ Inject(f)
         /\ Call("put_object_tagging", i, ~f)
         /\ IF ~f THEN Recorded("successful") ELSE CopyRaised("tagging_failed")
    /\ UNCHANGED <<geo, argv, config_file, source, target, target0, summaries,
                   scratch, zip_code, zip_config, coords, quad_ids, tiles, i,
                   tmp_path>>

\* lines 276-282: rasterio.open of the source and src.read(); an exception
\* reaches line 305
RioRead ==
    /\ pc = "rio_read"
    /\ \E f \in FaultChoices :
         LET ok == tiles[i].s3_path \in source /\ ~f
         IN  /\ Inject(tiles[i].s3_path \in source /\ f)
             /\ Call("rio_read", i, ok)
             /\ IF ok THEN Goto("rio_write") ELSE FallbackRaised
    /\ UNCHANGED <<geo, argv, config_file, source, target, target0, summaries,
                   scratch, zip_code, zip_config, coords, quad_ids, tiles, i,
                   tmp_path>>

\* the temporary files created so far
Created == Cardinality({k \in 1..Len(calls) : calls[k][1] = "rio_write"})

\* lines 285-289: NamedTemporaryFile(delete=False) creates the scratch file
\* under a fresh name, rasterio writes the raster to it; an exception of the
\* write reaches line 305
RioWrite ==
    /\ pc = "rio_write"
    /\ \E f \in FaultChoices :
         /\ Inject(f)
         /\ Call("rio_write", i, ~f)
         /\ tmp_path' = "tmp" \o ToString(Created + 1)
         /\ scratch' = scratch \cup {tmp_path'}
         /\ IF ~f THEN Goto("upload_file") ELSE FallbackRaised
    /\ UNCHANGED <<geo, argv, config_file, source, target, target0, summaries,
                   zip_code, zip_config, coords, quad_ids, tiles, i>>

\* lines 292-303: upload_file, os.unlink(tmp_path), return True, which
\* process_all_tiles records; an exception of the upload reaches line 305
\* with the unlink not run
UploadFile ==
    /\ pc = "upload_file"
    /\ \E f \in FaultChoices :
         /\ Inject(f)
         /\ Call("upload_file", i, ~f)
         /\ IF ~f
            THEN /\ target' = target \cup {fallback_target_key(tiles[i])}
                 /\ scratch' = scratch \ {tmp_path}
                 /\ Recorded("successful")
            ELSE /\ FallbackRaised
                 /\ UNCHANGED <<target, scratch>>
    /\ UNCHANGED <<geo, argv, config_file, source, target0, summaries,
                   zip_code, zip_config, coords, quad_ids, tiles, i, tmp_path>>

\* line 335: time.sleep(0.5), then the next tile
Sleep ==
    /\ pc = "sleep"
    /\ i' = i + 1
    /\ pc' = LoopPc(i + 1, tiles)
    /\ tmp_path' = None
    /\ UNCHANGED <<geo, argv, config_file, source, target, target0, summaries, scratch,
                   zip_code, zip_config, coords, quad_ids, tiles, results,
                   calls, faults, exit_code, error>>

----------------------------------------------------------------------------
(* process_all_tiles, lines 337-357, and main, lines 415-432 *)

\* the summary dictionary of lines 338-345
Summary ==
    [zip_code |-> Join(zip_code),
     total_tiles |-> Len(tiles),
     successful |-> Len(results.successful),
     failed |-> Len(results.failed),
     results |-> results]

\* lines 348-354: put_object of the summary; an exception reaches main's
\* except Exception, exit 1
PutSummary ==
    /\ pc = "summary"
    /\ \E f \in FaultChoices :
         /\ Inject(f)
         /\ Call("put_summary", 0, ~f)
         /\ IF ~f
            THEN /\ summaries' = Append(summaries, Summary)
                 /\ pc' = "verify_downloads"
                 /\ UNCHANGED <<exit_code, error>>
            ELSE /\ Exit(1, "Exception")
                 /\ UNCHANGED summaries
    /\ UNCHANGED <<geo, argv, config_file, source, target, target0, scratch, zip_code,
                   zip_config, coords, quad_ids, tiles, i, results, tmp_path>>

\* main exiting with status 1 when some tile failed
CompletionStatusFailed(res) == IF Len(res.failed) > 0 THEN 1 ELSE 0

\* lines 418-425: main logs the counts and the failed tiles and returns, the
\* interpreter exits with status 0 whatever results holds
CompletionStatus(res) == 0

\* verify_downloads lists the target prefix, main logs the counts and
\* returns: exit 0; an exception of the listing reaches except Exception
VerifyDownloads ==
    /\ pc = "verify_downloads"
    /\ \E f \in FaultChoices :
         /\ Inject(f)
         /\ Call("list_objects", 0, ~f)
         /\ IF ~f THEN Exit(CompletionStatus(results), "none")
                  ELSE Exit(1, "Exception")
    /\ UNCHANGED <<geo, argv, config_file, source, target, target0, summaries, scratch,
                   zip_code, zip_config, coords, quad_ids, tiles, i, results,
                   tmp_path>>

----------------------------------------------------------------------------

Next ==
    \/ Usage
    \/ InvalidZip
    \/ Construct
    \/ ResolveVerified
    \/ ResolveCoordinates
    \/ ResolveKeyError
    \/ ResolveGeocode
    \/ HeadTarget
    \/ CheckSource
    \/ CopyObject
    \/ PutTagging
    \/ RioRead
    \/ RioWrite
    \/ UploadFile
    \/ Sleep
    \/ PutSummary
    \/ VerifyDownloads

Spec == Init /\ [][Next]_vars

----------------------------------------------------------------------------
(* Vocabulary of the properties *)

\* the calls of operation op issued for tile k
CallsOf(op, k) == {n \in 1..Len(calls) : calls[n][1] = op /\ calls[n][2] = k}

\* operation op was issued for tile k and came out ok
Came(op, k, ok) == \E n \in 1..Len(calls) : calls[n] = <<op, k, ok>>

\* the operations of the two transfer paths
CopyOps == {"copy_object", "put_object_tagging"}
FallbackOps == {"rio_read", "rio_write", "upload_file"}

\* some operation of ops was issued for tile k
Issued(ops, k) ==
    \E n \in 1..Len(calls) : calls[n][2] = k /\ calls[n][1] \in ops

\* tile k's outcome has been recorded
Done(k) == k >= 1 /\ (k < i \/ (k = i /\ pc = "sleep"))

\* name is an element of list
InList(name, list) == \E n \in 1..Len(list) : list[n] = name

\* the resolution is over and the loop has been entered
Resolved == i >= 1

\* the target's keys of all tiles of the run
TileKeys == {copy_target_key(tiles[k]) : k \in 1..Len(tiles)}

----------------------------------------------------------------------------
(* Properties *)

\* C1: Idempotence of process_all_tiles. When the target bucket held every
\* tile of the region as the run began, the summary the run persists counts
\* no tile as successful and lists every tile as skipped.
C1_IdempotentRerun ==
    \A n \in 1..Len(summaries) :
        (Len(tiles) > 0 /\ TileKeys \subseteq target0)
            => /\ summaries[n].successful = 0
               /\ Len(summaries[n].results.skipped) = summaries[n].total_tiles

\* C2: Rerun after partial failure. A tile whose head check of the target
\* succeeded gets no source check, no copy_object, no tagging and no fallback
\* operation in that run; those operations are issued for a tile only after
\* its head check of the target reported the key absent.
C2_PresentTilesUntouched ==
    \A k \in 1..Len(tiles) :
        /\ Came("head_target", k, TRUE)
               => ~Issued(CopyOps \cup FallbackOps \cup {"head_source"}, k)
        /\ Issued(CopyOps \cup FallbackOps \cup {"head_source"}, k)
               => Came("head_target", k, FALSE)

\* C2 witness: a finished run over a partly filled target in which one tile
\* was found present and another was copied.
C2_Witness ==
    /\ pc = "exited"
    /\ \E k \in 1..Len(tiles) : Came("head_target", k, TRUE)
    /\ \E k \in 1..Len(tiles) :
           copy_target_key(tiles[k]) \notin target0 /\ Came("copy_object", k, TRUE)

\* copy_tile_to_s3 returned False for tile k
CopyFailed(k) ==
    \/ Came("head_source", k, FALSE)
    \/ Came("copy_object", k, FALSE)
    \/ Came("put_object_tagging", k, FALSE)

\* download_with_rasterio_fallback returned False for tile k
FallbackFailed(k) == \E op \in FallbackOps : Came(op, k, FALSE)

\* C3: Fallback exactly once, no retry. A tile whose primary copy failed has
\* the fallback invoked exactly once by the time its outcome is recorded, no
\* path is ever entered twice for a tile, and a tile whose fallback failed
\* too is recorded failed, the failing call being the last issued for it.
C3_FallbackOnce ==
    \A k \in 1..Len(tiles) :
        /\ Cardinality(CallsOf("rio_read", k)) <= 1
        /\ Cardinality(CallsOf("copy_object", k)) <= 1
        /\ Cardinality(CallsOf("head_source", k)) <= 1
        /\ (Done(k) /\ CopyFailed(k)) => Cardinality(CallsOf("rio_read", k)) = 1
        /\ (Done(k) /\ CopyFailed(k) /\ FallbackFailed(k))
               => /\ InList(tiles[k].filename, results.failed)
                  /\ ~InList(tiles[k].filename, results.successful)
                  /\ \A n \in 1..Len(calls) :
                        (calls[n][2] = k /\ calls[n][1] \in FallbackOps
                            /\ ~calls[n][3])
                        => \A m \in (n + 1)..Len(calls) : calls[m][2] # k

\* C3 witness: a finished run in which a copy_object failed, the fallback
\* failed after it, and a later tile was processed.
C3_Witness ==
    /\ pc = "exited"
    /\ \E k \in 1..Len(tiles) :
           /\ k < Len(tiles)
           /\ Came("copy_object", k, FALSE)
           /\ FallbackFailed(k)

\* C4: Scratch file cleanup on every exit path. Outside the fallback's
\* upload step no scratch file is on the disk: whatever the fallback created
\* is gone when it returns.
C4_ScratchRemoved == pc # "upload_file" => scratch = {}

\* C5: Source missing is a terminal per-tile outcome. A tile whose source
\* check reported the source missing (or failed) gets no operation of either
\* transfer path and is recorded failed.
C5_SourceMissingTerminal ==
    \A k \in 1..Len(tiles) :
        Came("head_source", k, FALSE)
            => /\ ~Issued(CopyOps \cup FallbackOps, k)
               /\ Done(k) => InList(tiles[k].filename, results.failed)

\* C6: Per-tile errors never abort the run. Once the region is resolved the
\* process leaves the loop only with every tile probed and recorded, the
\* summary is put exactly once and after the last call of the last tile, no
\* failure of a per-tile operation ends the process, and a summary put that
\* succeeds leaves exactly one summary, counting all tiles.
C6_RunCompletes ==
    Resolved =>
        /\ pc \in {"summary", "verify_downloads", "exited"}
               => /\ i = Len(tiles) + 1
                  /\ \A k \in 1..Len(tiles) : Issued({"head_target"}, k)
                  /\ Len(results.successful) + Len(results.failed)
                        + Len(results.skipped) = Len(tiles)
        /\ pc \in {"verify_downloads", "exited"}
               => Cardinality(CallsOf("put_summary", 0)) = 1
        /\ Cardinality(CallsOf("put_summary", 0)) <= 1
        /\ \A n \in CallsOf("put_summary", 0) :
               \A m \in (n + 1)..Len(calls) : calls[m][2] = 0
        /\ Len(summaries) = (IF Came("put_summary", 0, TRUE) THEN 1 ELSE 0)
        /\ \A n \in 1..Len(summaries) : summaries[n].total_tiles = Len(tiles)
        /\ error # "none"
               => \/ Came("put_summary", 0, FALSE)
                  \/ Came("list_objects", 0, FALSE)

\* C6 witness: a finished run in which every tile failed and the summary was
\* persisted.
C6_Witness ==
    /\ pc = "exited"
    /\ Len(tiles) > 0
    /\ Len(results.failed) = Len(tiles)
    /\ Len(summaries) = 1

\* a region identifier of exactly five digits
FiveDigits(z) == Len(z) = 5 /\ \A k \in 1..5 : z[k] \in UnicodeDigits

ResolutionOver == pc \notin {"main", "get_dallas_tiles"}

\* C8: Unresolvable region aborts without a summary. With no configuration
\* entry, a geocoding miss and no match in the hardcoded table, the run ends
\* with the ValueError and exit status 1, no tile is generated, probed or
\* transferred and no summary is written.
C8_UnresolvableAborts ==
    (/\ ResolutionOver
     /\ ~InMapping(zip_config, zip_code)
     /\ Came("geocode", 0, FALSE)
     /\ zip_code \notin DOMAIN dallas_zip_coords)
        => /\ pc = "exited" /\ exit_code = 1 /\ error = "ValueError"
           /\ calls = <<<<"geocode", 0, FALSE>>>>
           /\ tiles = <<>>
           /\ summaries = <<>>
           /\ target = target0

\* C8 witness: region 00000 without a configuration file has ended on the
\* ValueError.
C8_Witness ==
    /\ pc = "exited"
    /\ zip_code = Z00000
    /\ ~config_file.present
    /\ error = "ValueError"

\* C9: Verified configuration short-circuits resolution. For a region whose
\* configuration entry is verified with a non-empty quad id list, the quad
\* ids used are the configured list, in order, every generated tile carries
\* the quad id of its place in that list, and the geocoder is never called.
C9_VerifiedShortCircuit ==
    (ResolutionOver /\ InMapping(zip_config, zip_code))
        => LET e == zip_config.zip_code_mapping[zip_code]
               nq == Len(e.quad_ids)
           IN  (/\ Has(e, "verified") /\ e.verified
                /\ Has(e, "quad_ids") /\ e.quad_ids # <<>>)
                   => /\ quad_ids = e.quad_ids
                      /\ Len(tiles) = Len(Years(zip_config)) * nq * 4
                      /\ \A k \in 1..Len(tiles) :
                            tiles[k].quad_id
                                = Join(e.quad_ids[(((k - 1) \div 4) % nq) + 1])
                      /\ ~Issued({"geocode"}, 0)

\* C9 witness: the run on the verified entry with two quad ids has completed.
C9_Witness ==
    /\ pc = "exited"
    /\ exit_code = 0
    /\ quad_ids = <<Q3209661, Q3209653>>

\* C10: Geocoding failure falls through to the hardcoded table. For a region
\* without a configuration entry that the hardcoded table holds, a failed
\* geocoding request of any kind leaves the run with the table's coordinates
\* and without the ValueError.
C10_FailureFallsThrough ==
    (/\ ResolutionOver
     /\ ~InMapping(zip_config, zip_code)
     /\ geo \in GeoOutcomes \ {"hit"}
     /\ zip_code \in DOMAIN dallas_zip_coords)
        => /\ coords = dallas_zip_coords[zip_code]
           /\ error # "ValueError"

----------------------------------------------------------------------------
(* Specification of the generation alone: get_dallas_tiles on configuration
   files with every naip_years list and every quad id list of the bounds *)

\* longest naip_years list and longest quad_ids list of the configurations
MaxYears == 2
MaxQuads == 2

\* the sequences over S of length at most n
SeqsUpTo(S, n) == UNION {[1..m -> S] : m \in 0..n}

\* the acquisition years a configuration file may list
YearChoices == {2020, 2022, 2024}

\* entries with every key, verified or not, over the two quad ids
GenEntries ==
    {Entry(AllKeys, v, qs) :
        v \in BOOLEAN, qs \in SeqsUpTo({Q3209661, Q3209653}, MaxQuads)}

\* configuration files with a naip_years list, and without one
GenConfigFiles ==
    {Config(e, TRUE, ys) : e \in GenEntries, ys \in SeqsUpTo(YearChoices, MaxYears)}
        \cup {Config(e, FALSE, <<>>) : e \in GenEntries}

\* main() called for zip code 75287 on empty buckets
InitGen ==
    /\ argv = <<Z75287>>
    /\ config_file \in GenConfigFiles
    /\ source = {}
    /\ target = {}
    /\ target0 = target
    /\ summaries = <<>>
    /\ scratch = {}
    /\ pc = "main"
    /\ zip_code = <<>>
    /\ zip_config = NoConfig
    /\ coords = NoCoords
    /\ quad_ids = <<>>
    /\ tiles = <<>>
    /\ i = 0
    /\ results = NoResults
    /\ tmp_path = None
    /\ geo = "none"
    /\ calls = <<>>
    /\ faults = 0
    /\ exit_code = 0
    /\ error = "none"

\* main up to the return of get_dallas_tiles
NextGen ==
    \/ Construct
    \/ ResolveVerified
    \/ ResolveCoordinates

SpecGen == InitGen /\ [][NextGen]_vars

\* the tile at place k of the nested loops over years ys and quad ids qs
TileAt(k, ys, qs, zip) ==
    Tile(ys[((k - 1) \div (4 * Len(qs))) + 1],
         qs[(((k - 1) \div 4) % Len(qs)) + 1],
         Quadrants[((k - 1) % 4) + 1],
         zip)

\* C11: Generation is deterministic with an exact count. For a verified
\* entry the generated sequence is fixed by the configuration alone: it holds
\* |time periods| x |tile groups| x 4 descriptors, the descriptor at each place
\* is the one of that place's year, group and quadrant, and the verified
\* group 3209661 with the periods 2020 and 2022 yields 8 descriptors whose
\* destination keys are {prefix}/{year}/{filename}.
C11_ExactCount ==
    (ResolutionOver /\ InMapping(zip_config, zip_code)
        /\ UseVerified(zip_config.zip_code_mapping[zip_code]))
        => LET ys == Years(zip_config)
               qs == zip_config.zip_code_mapping[zip_code].quad_ids
           IN  /\ Len(tiles) = Len(ys) * Len(qs) * 4
               /\ \A k \in 1..Len(tiles) : tiles[k] = TileAt(k, ys, qs, zip_code)
               /\ (ys = <<2020, 2022>> /\ qs = <<Q3209661>>)
                    => [k \in 1..Len(tiles) |-> copy_target_key(tiles[k])]
                        = <<"imagery/naip/2020/m_3209661_nw_14_060_20200815.tif",
                            "imagery/naip/2020/m_3209661_ne_14_060_20200815.tif",
                            "imagery/naip/2020/m_3209661_sw_14_060_20200815.tif",
                            "imagery/naip/2020/m_3209661_se_14_060_20200815.tif",
                            "imagery/naip/2022/m_3209661_nw_14_060_20220815.tif",
                            "imagery/naip/2022/m_3209661_ne_14_060_20220815.tif",
                            "imagery/naip/2022/m_3209661_sw_14_060_20220815.tif",
                            "imagery/naip/2022/m_3209661_se_14_060_20220815.tif">>

\* C11 witness: the verified group 3209661 with the periods 2020 and 2022
\* has been generated.
C11_Witness ==
    /\ ResolutionOver
    /\ Years(zip_config) = <<2020, 2022>>
    /\ quad_ids = <<Q3209661>>
    /\ Len(tiles) = 8

\* C12: Generation order. For a verified entry the descriptors come with the
\* time periods ascending, whatever the order of the configured list, within
\* a period the tile groups in the order of the configured list, and within
\* a group the quadrants NW, NE, SW, SE.
C12_GenerationOrder ==
    (ResolutionOver /\ InMapping(zip_config, zip_code)
        /\ UseVerified(zip_config.zip_code_mapping[zip_code]))
        => LET qs == zip_config.zip_code_mapping[zip_code].quad_ids
           IN  /\ \A k, l \in 1..Len(tiles) : k < l => tiles[k].year <= tiles[l].year
               /\ \A k \in 1..Len(tiles) :
                    /\ tiles[k].quad_id = Join(qs[(((k - 1) \div 4) % Len(qs)) + 1])
                    /\ tiles[k].quadrant = Quadrants[((k - 1) % 4) + 1]

\* C13: No fabricated tile ids. Every generated descriptor carries a quad id
\* of the configured list of a verified entry; when the resolution yields
\* only coordinates (unverified entry, geocoding hit or table hit) no
\* descriptor is generated and no probe, copy or fallback is issued.
C13_NoFabricatedIds ==
    /\ \A k \in 1..Len(tiles) :
          /\ InMapping(zip_config, zip_code)
          /\ UseVerified(zip_config.zip_code_mapping[zip_code])
          /\ \E n \in 1..Len(zip_config.zip_code_mapping[zip_code].quad_ids) :
                tiles[k].quad_id
                    = Join(zip_config.zip_code_mapping[zip_code].quad_ids[n])
    /\ (ResolutionOver /\ coords # NoCoords)
          => /\ tiles = <<>>
             /\ \A n \in 1..Len(calls) : calls[n][2] = 0
             /\ target = target0

\* C13 witness: a run resolved to coordinates only has completed with no
\* descriptor.
C13_Witness ==
    /\ pc = "exited"
    /\ exit_code = 0
    /\ coords # NoCoords
    /\ tiles = <<>>

\* C14: Exit status. The process exits with status 1 on malformed input, on
\* an unresolvable region and on any error reaching main's handlers, and with
\* status 0 whenever the run completes, whatever the number of failed tiles.
C14_ExitStatus ==
    pc = "exited"
        => /\ (Len(argv) # 1 \/ error \in {"usage", "invalid_zip"}) => exit_code = 1
           /\ error \in {"ValueError", "KeyError", "Exception"} => exit_code = 1
           /\ Came("list_objects", 0, TRUE) <=> error = "none"
           /\ Came("list_objects", 0, TRUE) <=> exit_code = 0
           /\ exit_code \in {0, 1}

\* C14 witness: a run with a failed tile has completed with status 0.
C14_Witness ==
    /\ pc = "exited"
    /\ exit_code = 0
    /\ Len(results.failed) >= 1

\* C15: Fallback only after a failed copy. The rasterio fallback is invoked
\* for a tile only if the copy_object call for that tile failed; a tile whose
\* copy_object succeeded is never transferred again through the fallback, in
\* particular not when the tagging step fails afterwards.
C15_FallbackOnlyAfterFailedCopy ==
    \A k \in 1..Len(tiles) :
        /\ Issued(FallbackOps, k) => Came("copy_object", k, FALSE)
        /\ Came("copy_object", k, TRUE) => ~Issued(FallbackOps, k)

\* call n of the log is the first call issued for its tile
FirstOfTile(n) == \A m \in 1..(n - 1) : calls[m][2] # calls[n][2]

\* some call before call n is <<op, k, ok>>
CameBefore(n, op, k, ok) == \E m \in 1..(n - 1) : calls[m] = <<op, k, ok>>

\* C16: Probe ordering and error mapping. For each tile the head check of
\* the target key comes first; the head check of the source key is issued
\* only after the target check reported the tile absent or failed, a failed
\* target check being handled as absent; a source check that fails is
\* handled as a missing source: no copy_object is issued for the tile.
C16_ProbeOrder ==
    /\ \A n \in 1..Len(calls) :
          calls[n][2] >= 1 =>
             /\ FirstOfTile(n) <=> calls[n][1] = "head_target"
             /\ calls[n][1] = "head_source"
                   => calls[n - 1] = <<"head_target", calls[n][2], FALSE>>
             /\ calls[n][1] = "copy_object"
                   => calls[n - 1] = <<"head_source", calls[n][2], TRUE>>
    /\ \A k \in 1..Len(tiles) :
          /\ Came("head_target", k, TRUE) => ~Issued({"head_source"}, k)
          /\ Came("head_source", k, FALSE) => ~Issued(CopyOps, k)
    /\ (calls # <<>> /\ calls[Len(calls)] = <<"head_target", i, FALSE>>)
          => pc = "check_source"

\* C16 witness: a tile present at the target and at the source has had both
\* head checks fail and its outcome recorded.
C16_Witness ==
    \E k \in 1..Len(tiles) :
        /\ Done(k)
        /\ copy_target_key(tiles[k]) \in target0
        /\ tiles[k].s3_path \in source
        /\ Came("head_target", k, FALSE)
        /\ Came("head_source", k, FALSE)

\* C17: Resolution tier fallthrough for incomplete entries. A configured
\* entry with neither a verified non-empty quad id list nor coordinates is
\* resolved by the next tiers, the geocoder and then the table, and fails
\* only with the unresolvable-region error.
C17_IncompleteEntryFallsThrough ==
    (/\ ResolutionOver
     /\ InMapping(zip_config, zip_code)
     /\ ~Has(zip_config.zip_code_mapping[zip_code], "coordinates")
     /\ ~(/\ Has(zip_config.zip_code_mapping[zip_code], "verified")
          /\ UseVerified(zip_config.zip_code_mapping[zip_code])))
        => /\ Issued({"geocode"}, 0)
           /\ error # "KeyError"
           /\ pc = "exited" /\ exit_code = 1 => error = "ValueError"

\* the number of outcomes recorded so far
RecordedCount ==
    Len(results.successful) + Len(results.failed) + Len(results.skipped)

\* the place in tiles of the descriptor with filename name
IndexOf(name) == CHOOSE k \in 1..Len(tiles) : tiles[k].filename = name

\* the filenames of list are those of tiles taken in generation order
InGenerationOrder(list) ==
    /\ \A a \in 1..Len(list) : \E k \in 1..Len(tiles) : tiles[k].filename = list[a]
    /\ \A a, b \in 1..Len(list) : a < b => IndexOf(list[a]) < IndexOf(list[b])

\* C18: Strictly sequential processing. Tiles are processed one at a time in
\* generation order: the operations of the call log never go back to an
\* earlier tile, an operation for a tile is issued only once the outcomes of
\* all tiles before it are recorded and their pauses have elapsed, at most
\* the current tile is without its outcome, and each list of outcomes is in
\* generation order.
C18_Sequential ==
    /\ \A n, m \in 1..Len(calls) :
          (n < m /\ calls[n][2] >= 1 /\ calls[m][2] >= 1)
              => calls[n][2] <= calls[m][2]
    /\ \A n \in 1..Len(calls) : calls[n][2] <= i
    /\ Resolved /\ pc # "exited"
          => RecordedCount = IF pc \in {"sleep", "summary", "verify_downloads"}
                                THEN Min(i, Len(tiles)) ELSE i - 1
    /\ \A k \in 1..Len(tiles) :
          Done(k) <=> (InList(tiles[k].filename, results.successful)
                         \/ InList(tiles[k].filename, results.failed)
                         \/ InList(tiles[k].filename, results.skipped))
    /\ InGenerationOrder(results.successful)
    /\ InGenerationOrder(results.failed)
    /\ InGenerationOrder(results.skipped)

\* C18 witness: a run of eight tiles has completed with several tiles in
\* each of the lists successful and failed.
C18_Witness ==
    /\ pc = "exited"
    /\ exit_code = 0
    /\ Len(tiles) = 8
    /\ Len(results.successful) >= 2
    /\ Len(results.failed) >= 2

\* how many times name occurs in list
Occurrences(name, list) == Cardinality({n \in 1..Len(list) : list[n] = name})

\* how many times name occurs in the three lists of res
OccurrencesIn(name, res) ==
    Occurrences(name, res.successful) + Occurrences(name, res.failed)
        + Occurrences(name, res.skipped)

\* C19: Outcome partition. After k descriptors have been processed the lists
\* successful, failed and skipped hold k entries together, the filename of
\* each processed descriptor lying in exactly one list, once; the summary
\* persisted at completion counts every generated descriptor: its lists have
\* total_tiles entries together and its successful and failed counts are the
\* lengths of the two lists.
C19_OutcomePartition ==
    /\ \A k \in 1..Len(tiles) :
          OccurrencesIn(tiles[k].filename, results) = IF Done(k) THEN 1 ELSE 0
    /\ \A k \in 0..Len(tiles) :
          (Done(k) \/ k = 0) /\ ~Done(k + 1) => RecordedCount = k
    /\ \A n \in 1..Len(summaries) :
          LET s == summaries[n]
          IN  /\ s.total_tiles = Len(tiles)
              /\ Len(s.results.successful) + Len(s.results.failed)
                    + Len(s.results.skipped) = s.total_tiles
              /\ s.successful = Len(s.results.successful)
              /\ s.failed = Len(s.results.failed)
              /\ \A k \in 1..Len(tiles) :
                    OccurrencesIn(tiles[k].filename, s.results) = 1

\* C19 witness: the summary of a run of eight tiles, some successful and
\* some failed, has been persisted.
C19_Witness ==
    /\ Len(summaries) = 1
    /\ summaries[1].total_tiles = 8
    /\ summaries[1].successful >= 1
    /\ summaries[1].failed >= 1

\* the descriptors of the default years for both quad ids
AllDescriptors ==
    LET ts == YearTiles(DefaultYears, <<Q3209661, Q3209653>>, Z75287)
    IN  {ts[k] : k \in 1..Len(ts)}

\* descriptors t and u differ in year, quad id or quadrant
Differ(t, u) ==
    t.year # u.year \/ t.quad_id # u.quad_id \/ t.quadrant # u.quadrant

\* over the descriptors of the default years, descriptors that differ have
\* different keys, for the copy and for the fallback
KeysDiffer ==
    \A t, u \in AllDescriptors :
        Differ(t, u) => /\ copy_target_key(t) # copy_target_key(u)
                        /\ fallback_target_key(t) # fallback_target_key(u)

\* tile k was delivered by the copy or by the fallback
Delivered(k) == Came("copy_object", k, TRUE) \/ Came("upload_file", k, TRUE)

\* C20: One destination key per descriptor. The key probed, the key copied
\* to and the key the fallback uploads to are one key for a descriptor;
\* descriptors differing in year, quad id or quadrant have different keys; a
\* tile delivered by either path is at the key the probe reads, and the only
\* keys a run adds to the target are those of the tiles it delivered.
C20_OneKeyPerDescriptor ==
    /\ \A k \in 1..Len(tiles) :
          /\ fallback_target_key(tiles[k]) = copy_target_key(tiles[k])
          /\ Delivered(k) => copy_target_key(tiles[k]) \in target
    /\ \A k, l \in 1..Len(tiles) :
          Differ(tiles[k], tiles[l])
              => copy_target_key(tiles[k]) # copy_target_key(tiles[l])
    /\ KeysDiffer
    /\ target \ target0
          = {copy_target_key(tiles[k]) :
                k \in {l \in 1..Len(tiles) :
                         Delivered(l) /\ copy_target_key(tiles[l]) \notin target0}}

\* C20 witness: a run has delivered one tile by the copy and another by the
\* fallback, both absent from the target before.
C20_Witness ==
    \E k, l \in 1..Len(tiles) :
        /\ Done(k) /\ Done(l)
        /\ Came("copy_object", k, TRUE)
        /\ Came("upload_file", l, TRUE) /\ ~Issued({"copy_object"}, l)
        /\ copy_target_key(tiles[k]) \notin target0
        /\ copy_target_key(tiles[l]) \notin target0

=============================================================================
